---- MODULE Spec2Model ----
(***************************************************************************)
(* Model of vis-cli: the batch driver (vis_cli/main.py), the remote        *)
(* engine (vis_cli/libs/vision_api.py), the local engine                   *)
(* (vis_cli/libs/tesseract_engine.py) and the result type                  *)
(* (vis_cli/libs/ocr_engine.py).                                           *)
(*                                                                         *)
(* Conventions.  A Python str is a sequence of one-character strings when  *)
(* the code looks inside it (file names, recognised text, confidence       *)
(* tokens) and a sequence of fragments when the code only formats it       *)
(* (error messages).  An optional value is None (<<>>) or Some(v) (<<v>>). *)
(* A Python dict is a function whose DOMAIN is its key set.  A float is an *)
(* exact rational: a scaled integer, or a fraction [num, den].             *)
(***************************************************************************)
EXTENDS Integers, Sequences, FiniteSets, TLC

(***************************************************************************)
(* Bounds of the model.                                                    *)
(***************************************************************************)
MaxFiles == 3
MaxLabels == 2
MaxConf == 3

(***************************************************************************)
(* Optional values and small sequence helpers.                             *)
(***************************************************************************)
None == <<>>
Some(v) == <<v>>
IsNone(o) == Len(o) = 0
Get(o) == o[1]

Range(s) == {s[k] : k \in 1..Len(s)}
Contains(s, x) == \E k \in 1..Len(s) : s[k] = x
SeqsUpTo(S, n) == UNION {[1..m -> S] : m \in 0..n}

(***************************************************************************)
(* Characters: the order of their code points, and str.lower().            *)
(***************************************************************************)
CodeOrder == <<" ", "-", ".", "0", "1", "2", "3", "4", "5", "6", "7", "8", "9",
               "B", "G", "H", "N", "P",
               "a", "b", "c", "d", "e", "g", "h", "i", "j", "l", "m", "n", "o", "p",
               "s", "t", "u", "w", "x",
               "\n">>
Code(c) == IF c = "\n" THEN 0 ELSE CHOOSE k \in 1..Len(CodeOrder) : CodeOrder[k] = c

LowerChar(c) ==
    CASE c = "B" -> "b"
      [] c = "G" -> "g"
      [] c = "H" -> "h"
      [] c = "N" -> "n"
      [] c = "P" -> "p"
      [] OTHER -> c
Lower(s) == [k \in 1..Len(s) |-> LowerChar(s[k])]

\* s < t for two str values: lexicographic by code point.
RECURSIVE StrLess(_, _)
StrLess(s, t) ==
    IF Len(t) = 0 THEN FALSE
    ELSE IF Len(s) = 0 THEN TRUE
    ELSE IF s[1] # t[1] THEN Code(s[1]) < Code(t[1])
    ELSE StrLess(Tail(s), Tail(t))

(***************************************************************************)
(* pathlib: a path under the input root is the sequence of its parts.      *)
(***************************************************************************)
Name(p) == p[Len(p)]

\* str.rfind("."): the last index of a dot, 0 when there is none (Python: -1,
\* and indexes one lower).
RFindDot(n) ==
    IF \E k \in 1..Len(n) : n[k] = "."
    THEN CHOOSE k \in 1..Len(n) : n[k] = "." /\ \A m \in (k+1)..Len(n) : n[m] # "."
    ELSE 0

\* PurePath.suffix: name[i:] when 0 < i < len(name) - 1 (0-based i).
Suffix(p) ==
    LET n == Name(p)
        k == RFindDot(n)
    IN  IF 1 < k /\ k < Len(n) THEN SubSeq(n, k, Len(n)) ELSE <<>>

\* PurePath.stem: name[:i] under the same condition, else the name.
Stem(p) ==
    LET n == Name(p)
        k == RFindDot(n)
    IN  IF 1 < k /\ k < Len(n) THEN SubSeq(n, 1, k - 1) ELSE n

\* PurePath.__lt__: the parts compared as lists of str.
RECURSIVE PathLess(_, _)
PathLess(p, q) ==
    IF Len(q) = 0 THEN FALSE
    ELSE IF Len(p) = 0 THEN TRUE
    ELSE IF p[1] # q[1] THEN StrLess(p[1], q[1])
    ELSE PathLess(Tail(p), Tail(q))

\* sorted(): the ascending arrangement of a set of distinct paths.
RECURSIVE Sorted(_)
Sorted(S) ==
    IF S = {} THEN <<>>
    ELSE LET m == CHOOSE x \in S : \A y \in S \ {x} : PathLess(x, y)
         IN  <<m>> \o Sorted(S \ {m})

(***************************************************************************)
(* main.py: the allow-list and find_images.                                *)
(***************************************************************************)
IMAGE_EXTENSIONS ==
    { <<".", "p", "n", "g">>, <<".", "j", "p", "g">>, <<".", "j", "p", "e", "g">>,
      <<".", "b", "m", "p">>, <<".", "g", "i", "f">>, <<".", "w", "e", "b", "p">> }

\* The entries input_dir.glob("**/*") can yield: files and directories.
FSUniverse ==
    { [path |-> << <<"a", ".", "j", "p", "g">> >>, kind |-> "file"],
      [path |-> << <<"b", ".", "p", "n", "g">> >>, kind |-> "file"],
      [path |-> << <<"a", ".", "p", "n", "g">> >>, kind |-> "file"],
      [path |-> << <<"s", "u", "b">>, <<"a", ".", "j", "p", "g">> >>, kind |-> "file"],
      [path |-> << <<"B", ".", "P", "N", "G">> >>, kind |-> "file"],
      [path |-> << <<"d", "o", "c", ".", "t", "x", "t">> >>, kind |-> "file"],
      [path |-> << <<".", "p", "n", "g">> >>, kind |-> "file"],
      [path |-> << <<"d", ".", "g", "i", "f">> >>, kind |-> "dir"] }

\* IsImage without the lower(): an upper-case extension is not recognised.
IsImageCaseSensitive(e) == e.kind = "file" /\ Suffix(e.path) \in IMAGE_EXTENSIONS

IsImage(e) == e.kind = "file" /\ Lower(Suffix(e.path)) \in IMAGE_EXTENSIONS

find_images(tree) == Sorted({e.path : e \in {x \in tree : IsImage(x)}})

(***************************************************************************)
(* Floats as exact fractions.                                              *)
(***************************************************************************)
Frac(n, d) == [num |-> n, den |-> d]
FracEq(f, g) == f.num * g.den = g.num * f.den

(***************************************************************************)
(* Exceptions: the classes the code raises or meets, and their bases.      *)
(***************************************************************************)
Bases(cls) ==
    CASE cls = "FileNotFoundError" -> {"FileNotFoundError", "OSError", "Exception"}
      [] cls = "PermissionError" -> {"PermissionError", "OSError", "Exception"}
      [] cls = "Timeout" -> {"Timeout", "RequestException", "OSError", "Exception"}
      [] cls = "ConnectionError" ->
            {"ConnectionError", "RequestException", "OSError", "Exception"}
      [] cls = "requests.JSONDecodeError" ->
            {"requests.JSONDecodeError", "RequestException", "OSError", "ValueError",
             "Exception"}
      [] cls = "ValueError" -> {"ValueError", "Exception"}
      [] cls = "KeyError" -> {"KeyError", "Exception"}
      [] cls = "UnidentifiedImageError" -> {"UnidentifiedImageError", "OSError", "Exception"}
      [] cls = "TesseractError" -> {"TesseractError", "RuntimeError", "Exception"}
      [] cls = "VisionAPIError" -> {"VisionAPIError", "Exception"}
      [] cls = "TesseractEngineError" -> {"TesseractEngineError", "Exception"}
      [] OTHER -> {cls}

\* An except clause naming the classes `handled` catches an exception of class cls.
Catches(handled, cls) == Bases(cls) \cap handled # {}

\* What a call does: it returns a value or raises.
Return(v) == [kind |-> "return", result |-> v, exc |-> "", msg |-> <<>>]
Raise(cls, m) == [kind |-> "raise", result |-> <<>>, exc |-> cls, msg |-> m]

(***************************************************************************)
(* ocr_engine.py: Label and OCRResult.                                     *)
(***************************************************************************)
Label(description, score) == [description |-> description, score |-> score]

OCRResult(image_path, engine, full_text, labels, confidence, error) ==
    [image_path |-> image_path, engine |-> engine, full_text |-> full_text,
     labels |-> labels, confidence |-> confidence, error |-> error]

\* A reading of success by truthiness (not self.error) instead of identity.
SuccessIfNoMessage(r) == IsNone(r.error) \/ Get(r.error) = <<>>

success(r) == IsNone(r.error)

(***************************************************************************)
(* vision_api.py.                                                          *)
(***************************************************************************)
\* dict.get(key, default) and `key in dict`.
HasKey(d, k) == k \in DOMAIN d
DictGet(d, k, default) == IF k \in DOMAIN d THEN d[k] ELSE default

\* `not api_key`: None and the empty string are both falsy.
Falsy(o) == IsNone(o) \/ Get(o) = ""

\* The label annotations of a response entry: each {"description", "score"}; an
\* annotation without "score" makes label["score"] raise KeyError.
GoodLabelAnnotations ==
    { [description |-> "Text", score |-> Frac(95, 100)],
      [description |-> "Document", score |-> Frac(88, 100)] }
BadLabelAnnotation == [description |-> "Text"]
LabelAnnotations == GoodLabelAnnotations \cup {BadLabelAnnotation}

WellFormedLabels(anns) ==
    \A k \in 1..Len(anns) : {"description", "score"} \subseteq DOMAIN anns[k]

\* labels = [Label(description=label["description"], score=float(label["score"])) ...]
ExtractLabels(anns) ==
    [k \in 1..Len(anns) |-> Label(anns[k].description, anns[k].score)]

\* The structured "error" member of an entry.
ErrorInfos ==
    { [message |-> "Invalid API key", code |-> "3"],
      [message |-> "Invalid API key"],
      [code |-> "3"],
      [x \in {} |-> x] }

\* f"{error_info.get('message', 'Unknown error')} (code: {error_info.get('code', 'N/A')})"
FormatServiceError(error_info) ==
    << DictGet(error_info, "message", "Unknown error"), " (code: ",
       DictGet(error_info, "code", "N/A"), ")" >>

\* f"HTTP {response.status_code}: {response.text}"
FormatHttpError(status_code, text) == <<"HTTP ", ToString(status_code), ": ", text>>

\* HttpOk taking only server errors as failures.
HttpOkBelow500(status_code) == status_code < 500

\* The status the helper accepts as a success.
HttpOk(status_code) == status_code = 200

\* ParseResult giving up the annotations when the entry carries an error.
ParseResultDropsPartial(image_path, result) ==
    LET responses == DictGet(result, "responses", <<>>)
    IN  IF Len(responses) = 0
        THEN Return(OCRResult(image_path, "vision_api", None, <<>>, None,
                              Some(<<"No response from Vision API">>)))
        ELSE LET data == responses[1]
                 fta == DictGet(data, "fullTextAnnotation", [x \in {} |-> x])
                 full_text == IF HasKey(fta, "text") THEN Some(fta.text) ELSE None
                 anns == DictGet(data, "labelAnnotations", <<>>)
             IN  IF HasKey(data, "error")
                 THEN Return(OCRResult(image_path, "vision_api", None, <<>>, None,
                                       Some(FormatServiceError(data.error))))
                 ELSE IF ~WellFormedLabels(anns)
                 THEN Raise("KeyError", <<"'score'">>)
                 ELSE Return(OCRResult(image_path, "vision_api", full_text,
                                       ExtractLabels(anns), None, None))

\* ParseResult taking responses[0] without looking whether there is one.
ParseResultUnguarded(image_path, result) ==
    LET responses == DictGet(result, "responses", <<>>)
    IN  IF Len(responses) = 0
        THEN Raise("IndexError", <<"list index out of range">>)
        ELSE LET data == responses[1]
                 fta == DictGet(data, "fullTextAnnotation", [x \in {} |-> x])
                 full_text == IF HasKey(fta, "text") THEN Some(fta.text) ELSE None
                 anns == DictGet(data, "labelAnnotations", <<>>)
             IN  IF ~WellFormedLabels(anns)
                 THEN Raise("KeyError", <<"'score'">>)
                 ELSE Return(OCRResult(image_path, "vision_api", full_text,
                                       ExtractLabels(anns), None,
                                       IF HasKey(data, "error")
                                       THEN Some(FormatServiceError(data.error))
                                       ELSE None))

\* The part of analyze_image_with_apikey after the response has been decoded:
\* lines 109-141.
ParseResult(image_path, result) ==
    LET responses == DictGet(result, "responses", <<>>)
    IN  IF Len(responses) = 0
        THEN Return(OCRResult(image_path, "vision_api", None, <<>>, None,
                              Some(<<"No response from Vision API">>)))
        ELSE LET data == responses[1]
                 fta == DictGet(data, "fullTextAnnotation", [x \in {} |-> x])
                 full_text == IF HasKey(fta, "text") THEN Some(fta.text) ELSE None
                 anns == DictGet(data, "labelAnnotations", <<>>)
             IN  IF ~WellFormedLabels(anns)
                 THEN Raise("KeyError", <<"'score'">>)
                 ELSE LET labels == ExtractLabels(anns)
                          error_msg == IF HasKey(data, "error")
                                       THEN Some(FormatServiceError(data.error))
                                       ELSE None
                      IN  Return(OCRResult(image_path, "vision_api", full_text, labels,
                                           None, error_msg))

\* str(e) of what requests raises: a ConnectionError is taken to be raised
\* without a message, so that its text is the empty string.
ExceptionText(cls) ==
    IF cls = "ConnectionError" THEN <<>> ELSE <<"HTTPSConnectionPool: ", cls>>

\* The try block of analyze_image_with_apikey, lines 81-141, before its handler.
\* w is what the world does during the call: w.read (reading the file), w.post
\* (the HTTP exchange), w.status_code, w.text, w.json (decoding the body) and
\* w.body (the decoded body).
VisionTry(image_path, w) ==
    IF w.read # "ok" THEN Raise(w.read, <<"[Errno] ", w.read>>)
    ELSE IF w.post # "ok" THEN Raise(w.post, ExceptionText(w.post))
    ELSE IF ~HttpOk(w.status_code)
    THEN Return(OCRResult(image_path, "vision_api", None, <<>>, None,
                          Some(FormatHttpError(w.status_code, w.text))))
    ELSE IF w.json # "ok" THEN Raise(w.json, <<"Expecting value">>)
    ELSE ParseResult(image_path, w.body)

\* except (requests.exceptions.RequestException, OSError) as e: lines 143-146.
VisionHandled == {"RequestException", "OSError"}

\* The helper looking for the file before it looks for the key.
HelperChecksFileFirst(image_path, api_key, env_key, w) ==
    LET key == IF IsNone(api_key) THEN env_key ELSE api_key
    IN  IF ~w.exists
        THEN Raise("FileNotFoundError", <<"Image file not found: ", "<path>">>)
        ELSE IF Falsy(key)
        THEN Raise("VisionAPIError", <<"API_KEY environment variable is not set">>)
        ELSE LET o == VisionTry(image_path, w)
             IN  IF o.kind = "raise" /\ Catches(VisionHandled, o.exc)
                 THEN Return(OCRResult(image_path, "vision_api", None, <<>>, None,
                                       Some(o.msg)))
                 ELSE o

\* The calls the helper makes on the world, in order: the file is read at
\* lines 82-83 and the request is sent at lines 96-101, after both checks.
VisionEffects(api_key, env_key, w) ==
    LET key == IF IsNone(api_key) THEN env_key ELSE api_key
    IN  IF Falsy(key) \/ ~w.exists THEN <<>>
        ELSE IF w.read # "ok" THEN <<"read">>
        ELSE <<"read", "requests.post">>

analyze_image_with_apikey(image_path, api_key, env_key, w) ==
    LET key == IF IsNone(api_key) THEN env_key ELSE api_key
    IN  IF Falsy(key)
        THEN Raise("VisionAPIError", <<"API_KEY environment variable is not set">>)
        ELSE IF ~w.exists
        THEN Raise("FileNotFoundError", <<"Image file not found: ", "<path>">>)
        ELSE LET o == VisionTry(image_path, w)
             IN  IF o.kind = "raise" /\ Catches(VisionHandled, o.exc)
                 THEN Return(OCRResult(image_path, "vision_api", None, <<>>, None,
                                       Some(o.msg)))
                 ELSE o

\* VisionAPIEngineInit without the check of the key: the failure is left to
\* the first analyze call.
VisionAPIEngineInitLazy(api_key, env_key) ==
    Return([name |-> "vision_api",
            api_key |-> IF Falsy(api_key) THEN env_key ELSE api_key])

\* VisionAPIEngine.__init__: the key the engine keeps, or VisionAPIError.
VisionAPIEngineInit(api_key, env_key) ==
    LET key == IF Falsy(api_key) THEN env_key ELSE api_key
    IN  IF Falsy(key)
        THEN Raise("VisionAPIError",
                   <<"API_KEY must be provided or set as environment variable">>)
        ELSE Return([name |-> "vision_api", api_key |-> key])

\* VisionAPIEngine.analyze_image.
VisionAnalyzeImage(self, image_path, env_key, w) ==
    analyze_image_with_apikey(image_path, self.api_key, env_key, w)

(***************************************************************************)
(* tesseract_engine.py.                                                    *)
(***************************************************************************)
Whitespace == {" ", "\n"}
Digits == {"0", "1", "2", "3", "4", "5", "6", "7", "8", "9"}
DigitVal(c) == CHOOSE d \in 0..9 : ToString(d) = c

\* str.strip(): leading and trailing whitespace removed.
RECURSIVE LStrip(_)
LStrip(s) == IF Len(s) > 0 /\ s[1] \in Whitespace THEN LStrip(Tail(s)) ELSE s
RECURSIVE RStrip(_)
RStrip(s) ==
    IF Len(s) > 0 /\ s[Len(s)] \in Whitespace THEN RStrip(SubSeq(s, 1, Len(s) - 1)) ELSE s
Strip(s) == RStrip(LStrip(s))

\* str.replace(ch, ""): every occurrence of ch removed.
RECURSIVE Remove(_, _)
Remove(s, ch) ==
    IF Len(s) = 0 THEN <<>>
    ELSE IF s[1] = ch THEN Remove(Tail(s), ch)
    ELSE <<s[1]>> \o Remove(Tail(s), ch)

\* str.isdigit(): non-empty and all digits.
IsDigit(s) == Len(s) > 0 /\ \A k \in 1..Len(s) : s[k] \in Digits

\* A confidence entry is held as str(conf), the decimal text pytesseract
\* yields for it ("95", "-1", "30.5"); float(conf) is the value of that text.
\* float() accepts [-]digits[.digits]; its value is kept in tenths.
RECURSIVE DigitsVal(_)
DigitsVal(s) == IF Len(s) = 0 THEN 0 ELSE DigitsVal(SubSeq(s, 1, Len(s) - 1)) * 10
                                          + DigitVal(s[Len(s)])

FloatOk(s) ==
    LET body == IF Len(s) > 0 /\ s[1] = "-" THEN Tail(s) ELSE s
    IN  /\ IsDigit(Remove(body, "."))
        /\ ~Contains(body, "-")
        /\ Cardinality({k \in 1..Len(body) : body[k] = "."}) <= 1

FloatTenths(s) ==
    LET neg == Len(s) > 0 /\ s[1] = "-"
        body == IF neg THEN Tail(s) ELSE s
        k == RFindDot(body)
        whole == IF k = 0 THEN body ELSE SubSeq(body, 1, k - 1)
        frac == IF k = 0 THEN <<>> ELSE SubSeq(body, k + 1, Len(body))
        mag == DigitsVal(whole) * 10 + (IF Len(frac) = 0 THEN 0 ELSE DigitVal(frac[1]))
    IN  IF neg THEN 0 - mag ELSE mag

\* str(conf).replace(".", "").replace("-", "").isdigit()
LooksNumeric(conf) == IsDigit(Remove(Remove(conf, "."), "-"))

\* IsPositive with >= for >: the zero sentinel is averaged in.
IsPositiveOrZero(conf) == FloatTenths(conf) >= 0

\* float(conf) > 0
IsPositive(conf) == FloatTenths(conf) > 0

\* The filter of the comprehension of lines 94-98, and the entries on which
\* evaluating it raises ValueError (float() of a text that is no number).
Keeps(conf) == LooksNumeric(conf) /\ IsPositive(conf)
FilterRaises(confs) ==
    \E k \in 1..Len(confs) : LooksNumeric(confs[k]) /\ ~FloatOk(confs[k])

\* confidences = [float(conf) for conf in data.get("conf", []) if ...], in tenths.
Confidences(confs) == SelectSeq(confs, Keeps)

RECURSIVE SumTenths(_)
SumTenths(confs) ==
    IF Len(confs) = 0 THEN 0 ELSE FloatTenths(confs[1]) + SumTenths(Tail(confs))

\* avg_confidence = sum(confidences) / len(confidences) if confidences else None
\* normalized_confidence = avg_confidence / 100.0 if avg_confidence is not None else None
NormalizedConfidence(confs) ==
    LET confidences == Confidences(confs)
    IN  IF Len(confidences) = 0 THEN None
        ELSE Some(Frac(SumTenths(confidences), Len(confidences) * 10 * 100))

\* `x if normalized_confidence else y`: None and 0.0 are falsy.
Truthy(conf) == ~IsNone(conf) /\ Get(conf).num # 0

\* labels: one "text" label when the stripped text is non-empty, lines 106-114.
SynthLabels(text, normalized_confidence) ==
    IF Len(text) > 0
    THEN << Label("text", IF Truthy(normalized_confidence)
                          THEN Get(normalized_confidence) ELSE Frac(1, 2)) >>
    ELSE <<>>

\* confidence=normalized_confidence, line 128.
ResultConfidence(text, normalized_confidence) == normalized_confidence

\* The try block of TesseractEngine.analyze_image, lines 78-130.  w.open,
\* w.to_string and w.to_data are "ok" or the class the call raises; w.raw is
\* the text image_to_string returns and w.data the dict image_to_data returns.
TesseractTry(image_path, w) ==
    IF w.open # "ok" THEN Raise(w.open, <<"cannot identify image file">>)
    ELSE IF w.to_string # "ok" THEN Raise(w.to_string, <<"tesseract failed">>)
    ELSE IF w.to_data # "ok" THEN Raise(w.to_data, <<"tesseract failed">>)
    ELSE LET text == Strip(w.raw)
             confs == DictGet(w.data, "conf", <<>>)
         IN  IF FilterRaises(confs)
             THEN Raise("ValueError", <<"could not convert string to float">>)
             ELSE LET normalized_confidence == NormalizedConfidence(confs)
                  IN  Return(OCRResult(image_path, "tesseract",
                                       IF Len(text) > 0 THEN Some(text) ELSE None,
                                       SynthLabels(text, normalized_confidence),
                                       ResultConfidence(text, normalized_confidence),
                                       None))

\* except Exception as e: lines 132-135.
TesseractHandled == {"Exception"}

\* analyze_image without the look at the path: Image.open meets the missing
\* file and the handler reports what it raised.
TesseractAnalyzeImageUnchecked(image_path, w) ==
    LET o == IF ~w.exists
             THEN Raise("FileNotFoundError", <<"[Errno 2] No such file or directory">>)
             ELSE TesseractTry(image_path, w)
    IN  IF o.kind = "raise" /\ Catches(TesseractHandled, o.exc)
        THEN Return(OCRResult(image_path, "tesseract", None, <<>>, None,
                              Some(<<"Tesseract error: ">> \o o.msg)))
        ELSE o

\* The calls analyze_image makes on Pillow and pytesseract, in order: lines
\* 80, 83 and 86-91, none of them when the path does not exist.
TesseractEffects(w) ==
    IF ~w.exists THEN <<>>
    ELSE IF w.open # "ok" THEN <<"Image.open">>
    ELSE IF w.to_string # "ok" THEN <<"Image.open", "image_to_string">>
    ELSE <<"Image.open", "image_to_string", "image_to_data">>

TesseractAnalyzeImage(image_path, w) ==
    IF ~w.exists
    THEN Return(OCRResult(image_path, "tesseract", None, <<>>, None,
                          Some(<<"Image file not found: ", "<path>">>)))
    ELSE LET o == TesseractTry(image_path, w)
         IN  IF o.kind = "raise" /\ Catches(TesseractHandled, o.exc)
             THEN Return(OCRResult(image_path, "tesseract", None, <<>>, None,
                                   Some(<<"Tesseract error: ">> \o o.msg)))
             ELSE o

\* TesseractEngine.__init__: the dependency and the binary are checked.
TesseractEngineInit(available, version_ok) ==
    IF ~available
    THEN Raise("TesseractEngineError", <<"pytesseract and/or Pillow not installed. ">>)
    ELSE IF ~version_ok
    THEN Raise("TesseractEngineError", <<"Tesseract not found or not properly installed: ">>)
    ELSE Return([name |-> "tesseract", api_key |-> None])

(***************************************************************************)
(* What the world can do during one analyze call.                          *)
(***************************************************************************)
EmptyDict == [x \in {} |-> x]

\* A response entry with the members that are present (None: member missing).
MkEntry(fta, anns, err) ==
    [k \in ((IF IsNone(fta) THEN {} ELSE {"fullTextAnnotation"})
            \cup (IF IsNone(anns) THEN {} ELSE {"labelAnnotations"})
            \cup (IF IsNone(err) THEN {} ELSE {"error"}))
       |-> CASE k = "fullTextAnnotation" -> Get(fta)
             [] k = "labelAnnotations" -> Get(anns)
             [] OTHER -> Get(err)]

HelloText == <<"H", "e", "l", "l", "o">>
\* A text with a quote, a backslash before an n, and a line break.
QuotedText == <<"\"", "\\", "n", "\n">>
FullTextAnnotations ==
    {None, Some(EmptyDict), Some([text |-> HelloText]), Some([text |-> QuotedText])}
AnnotationLists == {None} \cup {Some(a) : a \in SeqsUpTo(LabelAnnotations, MaxLabels)}
EntryErrors == {None} \cup {Some(e) : e \in ErrorInfos}

Entries == {MkEntry(f, a, e) : f \in FullTextAnnotations, a \in AnnotationLists,
                               e \in EntryErrors}

GoodEntry == MkEntry(Some([text |-> HelloText]),
                     Some(<<[description |-> "Text", score |-> Frac(95, 100)]>>), None)
PartialEntry == MkEntry(Some([text |-> HelloText]), None,
                        Some([message |-> "Invalid API key", code |-> "3"]))
BadEntry == MkEntry(None, Some(<<BadLabelAnnotation>>), None)

\* A second entry, which the helper never looks at.
OtherEntry == MkEntry(Some([text |-> <<"O">>]), None, Some([message |-> "Other error"]))

Bodies ==
    {EmptyDict, [responses |-> <<>>]}
    \cup {[responses |-> <<e>>] : e \in Entries}
    \cup {[responses |-> <<e, OtherEntry>>] : e \in Entries}

VisionWorld(exists, read, post, status_code, text, json, body) ==
    [exists |-> exists, read |-> read, post |-> post, status_code |-> status_code,
     text |-> text, json |-> json, body |-> body]

StatusCodes == {200, 201, 204, 301, 400, 404, 500}

VisionWorlds ==
    {VisionWorld(FALSE, "ok", "ok", 200, "", "ok", EmptyDict)}
    \cup {VisionWorld(TRUE, r, "ok", 200, "", "ok", EmptyDict) :
             r \in {"PermissionError", "FileNotFoundError"}}
    \cup {VisionWorld(TRUE, "ok", p, 200, "", "ok", EmptyDict) :
             p \in {"Timeout", "ConnectionError"}}
    \cup {VisionWorld(TRUE, "ok", "ok", c, "Bad Request", "ValueError", EmptyDict) :
             c \in StatusCodes \ {200}}
    \cup {VisionWorld(TRUE, "ok", "ok", c, "{...}", "ok", [responses |-> <<GoodEntry>>]) :
             c \in StatusCodes \ {200}}
    \cup {VisionWorld(TRUE, "ok", "ok", 200, "<html>", j, EmptyDict) :
             j \in {"requests.JSONDecodeError", "ValueError"}}
    \cup {VisionWorld(TRUE, "ok", "ok", 200, "{...}", "ok", b) : b \in Bodies}

\* The keys a caller of the helper can pass and the environment can hold.
ApiKeys == {None, Some(""), Some("k")}

Texts == { <<>>, <<" ", "\n">>, <<"H", "i">>, <<" ", "H", "i", "\n">> }
Tokens == { <<"9", "5">>, <<"8", "8">>, <<"-", "1">>, <<"0">>, <<"3", "0", ".", "5">> }

TessWorld(exists, open, to_string, to_data, raw, data) ==
    [exists |-> exists, open |-> open, to_string |-> to_string, to_data |-> to_data,
     raw |-> raw, data |-> data]

TessWorlds ==
    {TessWorld(FALSE, "ok", "ok", "ok", <<>>, EmptyDict)}
    \cup {TessWorld(TRUE, o, "ok", "ok", <<>>, EmptyDict) :
             o \in {"UnidentifiedImageError", "FileNotFoundError"}}
    \cup {TessWorld(TRUE, "ok", "TesseractError", "ok", <<>>, EmptyDict),
          TessWorld(TRUE, "ok", "ok", "TesseractError", <<"H", "i">>, EmptyDict)}
    \cup {TessWorld(TRUE, "ok", "ok", "ok", t, EmptyDict) : t \in Texts}
    \cup {TessWorld(TRUE, "ok", "ok", "ok", t, [conf |-> c]) :
             t \in Texts, c \in SeqsUpTo(Tokens, MaxConf)}

(***************************************************************************)
(* State.                                                                  *)
(***************************************************************************)
VARIABLES
    pc,             \* where main() is: "start", "analyze", "save", "exit"
    env,            \* the arguments and the environment of the run
    tree,           \* the entries under the input directory
    images,         \* images = find_images(args.input_dir)
    idx,            \* position of img in images (i of enumerate)
    result,         \* the result of the current image, once analysed
    success_count,  \* success_count
    outdir,         \* the output directory: file name -> what was written
    analysed,       \* the calls of engine.analyze_image, in order: the image and
                    \* whether a result with success = true came back
    saved,          \* the calls of save_result, in order: the image and whether
                    \* the record was written
    logged,         \* the per-image errors logged by the handler of line 174
    exit_code,      \* the exit status, None while main() runs
    complete,       \* the "Complete: ..." report was logged
    call            \* one engine call on its own: engine, keys, world, outcome

vars == <<pc, env, tree, images, idx, result, success_count, outdir, analysed, saved,
          logged, exit_code, complete, call>>

mainVars == <<pc, env, tree, images, idx, result, success_count, outdir, analysed,
              saved, logged, exit_code, complete>>

(***************************************************************************)
(* main.py: save_result, create_engine and main.                           *)
(***************************************************************************)
\* The dict save_result builds, lines 82-90.
RecordLabels(labels) ==
    [k \in 1..Len(labels) |-> [name |-> labels[k].description, score |-> labels[k].score]]

Data(r) ==
    [image |-> r.image_path, engine |-> r.engine, success |-> success(r),
     text |-> r.full_text, labels |-> RecordLabels(r.labels),
     confidence |-> r.confidence, error |-> r.error]

\* What save_result leaves in the file: the record in the chosen format; whole
\* is FALSE when the write was cut short after open(output_path, "w").
Written(r, format_type, whole) ==
    [data |-> Data(r), format |-> format_type, whole |-> whole]

(***************************************************************************)
(* json: what json.dumps / json.dump write and what json.loads reads back. *)
(* A JSON value is tagged: null, bool, num (a float, by value), str (a     *)
(* sequence of characters or fragments), list, dict (its members in        *)
(* order).  A text is a sequence of tokens: punctuation, white space,      *)
(* string literals (escaped), numbers and the literals true/false/null.    *)
(***************************************************************************)
JNull == [t |-> "null", v |-> <<>>]
JBool(b) == [t |-> "bool", v |-> b]
JNum(f) == [t |-> "num", v |-> f]
JStr(x) == [t |-> "str", v |-> x]
JList(xs) == [t |-> "list", v |-> xs]
JDict(members) == [t |-> "dict", v |-> members]
Member(k, x) == [key |-> k, val |-> x]

JOptStr(o) == IF IsNone(o) THEN JNull ELSE JStr(Get(o))
JOptNum(o) == IF IsNone(o) THEN JNull ELSE JNum(Get(o))

\* str(image_path): the parts joined by "/".
RECURSIVE PathStr(_)
PathStr(path) ==
    IF Len(path) = 0 THEN <<>>
    ELSE IF Len(path) = 1 THEN path[1]
    ELSE path[1] \o <<"/">> \o PathStr(Tail(path))

\* The object json serialises: the dict `data` of save_result, keys in
\* insertion order.
DataJson(d) ==
    JDict(<< Member(<<"image">>, JStr(PathStr(d.image))),
             Member(<<"engine">>, JStr(<<d.engine>>)),
             Member(<<"success">>, JBool(d.success)),
             Member(<<"text">>, JOptStr(d.text)),
             Member(<<"labels">>,
                    JList([k \in 1..Len(d.labels) |->
                             JDict(<< Member(<<"name">>, JStr(<<d.labels[k].name>>)),
                                      Member(<<"score">>, JNum(d.labels[k].score)) >>)])),
             Member(<<"confidence">>, JOptNum(d.confidence)),
             Member(<<"error">>, JOptStr(d.error)) >>)

Tok(t, v) == [t |-> t, v |-> v]
Punct(c) == Tok("p", <<c>>)
Space == Tok("ws", <<" ">>)
\* A line break followed by the indentation of the level (indent=2).
NewLine(level) == Tok("ws", <<"\n">> \o [k \in 1..(2 * level) |-> " "])

\* EscapeChar keeping line breaks and backslashes as they are.
EscapeCharQuotesOnly(c) == IF c = "\"" THEN <<"\\", "\"">> ELSE <<c>>

\* The escapes of a string literal (ensure_ascii=False: nothing else changes).
EscapeChar(c) ==
    CASE c = "\"" -> <<"\\", "\"">>
      [] c = "\\" -> <<"\\", "\\">>
      [] c = "\n" -> <<"\\", "n">>
      [] OTHER -> <<c>>

RECURSIVE Escape(_)
Escape(x) == IF Len(x) = 0 THEN <<>> ELSE EscapeChar(x[1]) \o Escape(Tail(x))

RECURSIVE Unescape(_)
Unescape(x) ==
    IF Len(x) = 0 THEN <<>>
    ELSE IF x[1] = "\\" /\ Len(x) >= 2
    THEN <<IF x[2] = "n" THEN "\n" ELSE x[2]>> \o Unescape(SubSeq(x, 3, Len(x)))
    ELSE <<x[1]>> \o Unescape(Tail(x))

RECURSIVE GCD(_, _)
GCD(a, b) == IF b = 0 THEN a ELSE GCD(b, a % b)

\* float.__repr__: the shortest text that reads back as the same float; the
\* text is held as the value it denotes, in lowest terms.
FloatRepr(f) == LET g == GCD(f.num, f.den) IN <<f.num \div g, f.den \div g>>

\* json.dumps(obj) / json.dumps(obj, indent=2): the tokens written, for an
\* object at nesting depth `level`.
RECURSIVE Dumps(_, _, _)
RECURSIVE DumpMembers(_, _, _, _)
Dumps(j, pretty, level) ==
    CASE j.t = "null" -> <<Tok("lit", <<"null">>)>>
      [] j.t = "bool" -> <<Tok("lit", <<IF j.v THEN "true" ELSE "false">>)>>
      [] j.t = "num" -> <<Tok("n", FloatRepr(j.v))>>
      [] j.t = "str" -> <<Tok("s", Escape(j.v))>>
      [] OTHER ->
            LET open == IF j.t = "list" THEN "[" ELSE "{"
                close == IF j.t = "list" THEN "]" ELSE "}"
            IN  IF Len(j.v) = 0 THEN <<Punct(open), Punct(close)>>
                ELSE <<Punct(open)>>
                     \o (IF pretty THEN <<NewLine(level + 1)>> ELSE <<>>)
                     \o DumpMembers(j.v, j.t = "dict", pretty, level + 1)
                     \o (IF pretty THEN <<NewLine(level)>> ELSE <<>>)
                     \o <<Punct(close)>>

\* The members of a list or dict, separated by ", " or by "," and a new line.
DumpMembers(ms, isdict, pretty, level) ==
    LET one == IF isdict
               THEN <<Tok("s", Escape(ms[1].key)), Punct(":"), Space>>
                    \o Dumps(ms[1].val, pretty, level)
               ELSE Dumps(ms[1], pretty, level)
    IN  IF Len(ms) = 1 THEN one
        ELSE one \o <<Punct(",")>>
             \o (IF pretty THEN <<NewLine(level)>> ELSE <<Space>>)
             \o DumpMembers(Tail(ms), isdict, pretty, level)

\* json.loads(text): white space between tokens is skipped.
NotSpace(tk) == tk.t # "ws"
IsPunct(tk, c) == tk.t = "p" /\ tk.v = <<c>>

\* The value that starts at token i, and the index after it.
RECURSIVE ParseValue(_, _)
RECURSIVE ParseMembers(_, _, _, _)
ParseValue(toks, i) ==
    LET tk == toks[i]
    IN  CASE tk.t = "lit" ->
                [val |-> IF tk.v = <<"null">> THEN JNull ELSE JBool(tk.v = <<"true">>),
                 next |-> i + 1]
          [] tk.t = "n" -> [val |-> JNum(Frac(tk.v[1], tk.v[2])), next |-> i + 1]
          [] tk.t = "s" -> [val |-> JStr(Unescape(tk.v)), next |-> i + 1]
          [] OTHER ->
                LET isdict == IsPunct(tk, "{")
                IN  IF IsPunct(toks[i + 1], IF isdict THEN "}" ELSE "]")
                    THEN [val |-> IF isdict THEN JDict(<<>>) ELSE JList(<<>>),
                          next |-> i + 2]
                    ELSE ParseMembers(toks, i + 1, <<>>, isdict)

ParseMembers(toks, i, acc, isdict) ==
    LET item == IF isdict THEN ParseValue(toks, i + 2) ELSE ParseValue(toks, i)
        m == IF isdict THEN Member(Unescape(toks[i].v), item.val) ELSE item.val
    IN  IF IsPunct(toks[item.next], ",")
        THEN ParseMembers(toks, item.next + 1, Append(acc, m), isdict)
        ELSE [val |-> IF isdict THEN JDict(Append(acc, m)) ELSE JList(Append(acc, m)),
              next |-> item.next + 1]

Loads(text) == ParseValue(SelectSeq(text, NotSpace), 1).val

\* The text save_result writes, lines 92-96: one compact line and "\n", or
\* the indented form.
FileText(r, format_type) ==
    IF format_type = "jsonl"
    THEN Dumps(DataJson(Data(r)), FALSE, 0) \o <<Tok("ws", <<"\n">>)>>
    ELSE Dumps(DataJson(Data(r)), TRUE, 0)

\* ext = ".jsonl" if args.format == "jsonl" else ".json"
Ext(format_type) ==
    IF format_type = "jsonl" THEN <<".", "j", "s", "o", "n", "l">>
    ELSE <<".", "j", "s", "o", "n">>

\* output_file = args.output_dir / f"{img.stem}{ext}"
OutputFile(img, format_type) == Stem(img) \o Ext(format_type)

\* create_engine(args): the engine, or the constructor's exception.
create_engine(args) ==
    IF args.engine = "vision"
    THEN VisionAPIEngineInit(None, args.env_key)
    ELSE TesseractEngineInit(args.tess_available, args.tess_version_ok)

\* except (VisionAPIError, TesseractEngineError): line 155.
InitHandled == {"VisionAPIError", "TesseractEngineError"}
\* except (VisionAPIError, TesseractEngineError, FileNotFoundError): line 174.
MainHandled == {"VisionAPIError", "TesseractEngineError", "FileNotFoundError"}

Args(is_dir, engine, format, env_key, tess_available, tess_version_ok) ==
    [is_dir |-> is_dir, engine |-> engine, format |-> format, env_key |-> env_key,
     tess_available |-> tess_available, tess_version_ok |-> tess_version_ok]

Runs ==
    {Args(FALSE, "vision", "json", Some("k"), TRUE, TRUE)}
    \cup {Args(TRUE, "vision", f, k, TRUE, TRUE) :
             f \in {"json", "jsonl"}, k \in {None, Some("k")}}
    \cup {Args(TRUE, "tesseract", "json", None, a, v) :
             <<a, v>> \in {<<FALSE, TRUE>>, <<TRUE, FALSE>>}}
    \cup {Args(TRUE, "tesseract", f, None, TRUE, TRUE) : f \in {"json", "jsonl"}}

Trees == {t \in SUBSET FSUniverse : Cardinality(t) <= MaxFiles}

\* engine.analyze_image(img) on the engine of the run.
AnalyzeImage(args, img, w) ==
    IF args.engine = "vision"
    THEN VisionAnalyzeImage(create_engine(args).result, img, args.env_key, w)
    ELSE TesseractAnalyzeImage(img, w)

\* The worlds one image of a batch can meet.
BatchWorlds(args) ==
    IF args.engine = "vision"
    THEN {VisionWorld(FALSE, "ok", "ok", 200, "", "ok", EmptyDict),
          VisionWorld(TRUE, "ok", "Timeout", 200, "", "ok", EmptyDict),
          VisionWorld(TRUE, "ok", "ConnectionError", 200, "", "ok", EmptyDict),
          VisionWorld(TRUE, "ok", "ok", 400, "Bad Request", "ok", EmptyDict),
          VisionWorld(TRUE, "ok", "ok", 200, "{...}", "ok", [responses |-> <<GoodEntry>>]),
          VisionWorld(TRUE, "ok", "ok", 200, "{...}", "ok", [responses |-> <<PartialEntry>>]),
          VisionWorld(TRUE, "ok", "ok", 200, "{...}", "ok", [responses |-> <<BadEntry>>])}
    ELSE {TessWorld(FALSE, "ok", "ok", "ok", <<>>, EmptyDict),
          TessWorld(TRUE, "UnidentifiedImageError", "ok", "ok", <<>>, EmptyDict),
          TessWorld(TRUE, "ok", "ok", "ok", <<"H", "i">>,
                    [conf |-> << <<"9", "5">>, <<"-", "1">> >>]),
          TessWorld(TRUE, "ok", "ok", "ok", <<>>, [conf |-> << <<"-", "1">> >>])}

\* What open(output_path, "w") can do in save_result.
SaveWorlds == {"ok", "FileNotFoundError", "PermissionError"}

Img == images[idx]

\* main(), lines 140-142: the input path is not a directory.
StartNotDir ==
    /\ pc = "start"
    /\ ~env.is_dir
    /\ pc' = "exit"
    /\ exit_code' = Some(1)
    /\ UNCHANGED <<env, tree, images, idx, result, success_count, outdir, analysed,
                   saved, logged, complete, call>>

\* main(), lines 144-147: no image found.
StartNoImages ==
    /\ pc = "start"
    /\ env.is_dir
    /\ find_images(tree) = <<>>
    /\ images' = find_images(tree)
    /\ pc' = "exit"
    /\ exit_code' = Some(0)
    /\ UNCHANGED <<env, tree, idx, result, success_count, outdir, analysed, saved,
                   logged, complete, call>>

\* main(), lines 152-157: the engine cannot be constructed.
StartEngineFails ==
    /\ pc = "start"
    /\ env.is_dir
    /\ find_images(tree) # <<>>
    /\ create_engine(env).kind = "raise"
    /\ Catches(InitHandled, create_engine(env).exc)
    /\ images' = find_images(tree)
    /\ pc' = "exit"
    /\ exit_code' = Some(1)
    /\ UNCHANGED <<env, tree, idx, result, success_count, outdir, analysed, saved,
                   logged, complete, call>>

\* main(), lines 144-161: the loop is entered.
StartLoop ==
    /\ pc = "start"
    /\ env.is_dir
    /\ find_images(tree) # <<>>
    /\ create_engine(env).kind = "return"
    /\ images' = find_images(tree)
    /\ success_count' = 0
    /\ idx' = 1
    /\ pc' = "analyze"
    /\ UNCHANGED <<env, tree, result, outdir, analysed, saved, logged, exit_code,
                   complete, call>>

\* ExitStatus reporting success as soon as one image succeeded.
ExitStatusAnySuccess(n, total) == IF n > 0 \/ total = 0 THEN 0 ELSE 1

\* sys.exit(0 if success_count == len(images) else 1), line 183.
ExitStatus(n, total) == IF n = total THEN 0 ELSE 1

\* The end of one iteration with success_count = n: the next image, or the
\* report and the exit status of lines 181-183.
EndIteration(n) ==
    /\ success_count' = n
    /\ result' = None
    /\ IF idx < Len(images)
       THEN /\ idx' = idx + 1
            /\ pc' = "analyze"
            /\ UNCHANGED <<exit_code, complete>>
       ELSE /\ idx' = idx
            /\ pc' = "exit"
            /\ complete' = TRUE
            /\ exit_code' = Some(ExitStatus(n, Len(images)))

\* An exception no handler of main() catches ends the process with status 1.
Crash ==
    /\ pc' = "crashed"
    /\ exit_code' = Some(1)
    /\ UNCHANGED <<idx, success_count, complete>>

\* line 169: engine.analyze_image(img) returns a result.
AnalyzeReturns ==
    /\ pc = "analyze"
    /\ \E w \in BatchWorlds(env) :
          LET o == AnalyzeImage(env, Img, w)
          IN  /\ o.kind = "return"
              /\ result' = Some(o.result)
              /\ analysed' = Append(analysed, [image |-> Img, success |-> success(o.result)])
    /\ pc' = "save"
    /\ UNCHANGED <<env, tree, images, idx, success_count, outdir, saved, logged,
                   exit_code, complete, call>>

\* lines 169, 174-175: it raises and the handler logs the error.
AnalyzeRaisesHandled ==
    /\ pc = "analyze"
    /\ \E w \in BatchWorlds(env) :
          LET o == AnalyzeImage(env, Img, w)
          IN  /\ o.kind = "raise"
              /\ Catches(MainHandled, o.exc)
              /\ logged' = Append(logged, [image |-> Img, exc |-> o.exc])
    /\ analysed' = Append(analysed, [image |-> Img, success |-> FALSE])
    /\ EndIteration(success_count)
    /\ UNCHANGED <<env, tree, images, outdir, saved, call>>

\* line 169: it raises what line 174 does not catch.
AnalyzeRaisesUnhandled ==
    /\ pc = "analyze"
    /\ \E w \in BatchWorlds(env) :
          LET o == AnalyzeImage(env, Img, w)
          IN  /\ o.kind = "raise"
              /\ ~Catches(MainHandled, o.exc)
    /\ analysed' = Append(analysed, [image |-> Img, success |-> FALSE])
    /\ Crash
    /\ UNCHANGED <<env, tree, images, result, outdir, saved, logged, call>>

\* lines 170-173: the record is written and the success counted.
SaveWrites ==
    /\ pc = "save"
    /\ saved' = Append(saved, [image |-> Img, wrote |-> TRUE])
    /\ outdir' = [f \in DOMAIN outdir \cup {OutputFile(Img, env.format)} |->
                    IF f = OutputFile(Img, env.format)
                    THEN Written(Get(result), env.format, TRUE)
                    ELSE outdir[f]]
    /\ EndIteration(IF success(Get(result)) THEN success_count + 1 ELSE success_count)
    /\ UNCHANGED <<env, tree, images, analysed, logged, call>>

\* lines 171, 174-175: open() raises FileNotFoundError, which the handler logs.
SaveRaisesHandled ==
    /\ pc = "save"
    /\ \E x \in SaveWorlds : x # "ok" /\ Catches(MainHandled, x)
          /\ logged' = Append(logged, [image |-> Img, exc |-> x])
    /\ saved' = Append(saved, [image |-> Img, wrote |-> FALSE])
    /\ EndIteration(success_count)
    /\ UNCHANGED <<env, tree, images, outdir, analysed, call>>

\* line 171: open() raises another OSError.
SaveRaisesUnhandled ==
    /\ pc = "save"
    /\ \E x \in SaveWorlds : x # "ok" /\ ~Catches(MainHandled, x)
    /\ saved' = Append(saved, [image |-> Img, wrote |-> FALSE])
    /\ Crash
    /\ UNCHANGED <<env, tree, images, result, outdir, analysed, logged, call>>

\* lines 177-179: KeyboardInterrupt while the engine call is pending.
InterruptAnalyze ==
    /\ pc = "analyze"
    /\ pc' = "interrupted"
    /\ exit_code' = Some(130)
    /\ UNCHANGED <<env, tree, images, idx, result, success_count, outdir, analysed,
                   saved, logged, complete, call>>

\* lines 177-179: KeyboardInterrupt after the engine call returned: before
\* save_result opens the file, or after it opened (and emptied) it.
InterruptSave ==
    /\ pc = "save"
    /\ \E opened \in BOOLEAN :
          IF opened
          THEN /\ saved' = Append(saved, [image |-> Img, wrote |-> FALSE])
               /\ outdir' = [f \in DOMAIN outdir \cup {OutputFile(Img, env.format)} |->
                               IF f = OutputFile(Img, env.format)
                               THEN Written(Get(result), env.format, FALSE)
                               ELSE outdir[f]]
          ELSE UNCHANGED <<saved, outdir>>
    /\ pc' = "interrupted"
    /\ exit_code' = Some(130)
    /\ UNCHANGED <<env, tree, images, idx, result, success_count, analysed, logged,
                   complete, call>>

NoCall == [kind |-> "none", done |-> FALSE]

Init ==
    /\ pc = "start"
    /\ env \in Runs
    /\ tree \in Trees
    /\ images = <<>>
    /\ idx = 0
    /\ result = None
    /\ success_count = 0
    /\ outdir = EmptyDict
    /\ analysed = <<>>
    /\ saved = <<>>
    /\ logged = <<>>
    /\ exit_code = None
    /\ complete = FALSE
    /\ call = NoCall

Next ==
    \/ StartNotDir
    \/ StartNoImages
    \/ StartEngineFails
    \/ StartLoop
    \/ AnalyzeReturns
    \/ AnalyzeRaisesHandled
    \/ AnalyzeRaisesUnhandled
    \/ SaveWrites
    \/ SaveRaisesHandled
    \/ SaveRaisesUnhandled
    \/ InterruptAnalyze
    \/ InterruptSave

Spec == Init /\ [][Next]_vars

(***************************************************************************)
(* One engine call on its own, over every world of the call.               *)
(***************************************************************************)
DefaultVW == VisionWorld(FALSE, "ok", "ok", 200, "", "ok", EmptyDict)
DefaultTW == TessWorld(FALSE, "ok", "ok", "ok", <<>>, EmptyDict)
CallPath == << <<"a", ".", "j", "p", "g">> >>

Call(kind, api_key, env_key, vw, tw) ==
    [kind |-> kind, api_key |-> api_key, env_key |-> env_key, vw |-> vw, tw |-> tw,
     done |-> FALSE, out |-> Return(<<>>), effects |-> <<>>]

Calls ==
    \* analyze_image_with_apikey called directly, with any keys
    {Call("helper", a, e, w, DefaultTW) :
        a \in ApiKeys, e \in {None, Some("k")}, w \in VisionWorlds}
    \* VisionAPIEngine().analyze_image: the engine was constructed with a key
    \cup {Call("vision", Some("k"), e, w, DefaultTW) :
             e \in {None, Some("k")}, w \in VisionWorlds}
    \* TesseractEngine().analyze_image
    \cup {Call("tesseract", None, None, DefaultVW, w) : w \in TessWorlds}

InitEngine ==
    /\ pc = "idle"
    /\ env = Args(TRUE, "vision", "json", None, TRUE, TRUE)
    /\ tree = {}
    /\ images = <<>>
    /\ idx = 0
    /\ result = None
    /\ success_count = 0
    /\ outdir = EmptyDict
    /\ analysed = <<>>
    /\ saved = <<>>
    /\ logged = <<>>
    /\ exit_code = None
    /\ complete = FALSE
    /\ call \in Calls

CallHelper ==
    /\ call.kind = "helper"
    /\ ~call.done
    /\ call' = [call EXCEPT !.done = TRUE,
                  !.out = analyze_image_with_apikey(CallPath, call.api_key,
                                                    call.env_key, call.vw),
                  !.effects = VisionEffects(call.api_key, call.env_key, call.vw)]
    /\ UNCHANGED mainVars

CallVisionEngine ==
    /\ call.kind = "vision"
    /\ ~call.done
    /\ LET self == VisionAPIEngineInit(call.api_key, call.env_key)
       IN  /\ self.kind = "return"
           /\ call' = [call EXCEPT !.done = TRUE,
                         !.out = VisionAnalyzeImage(self.result, CallPath,
                                                    call.env_key, call.vw),
                         !.effects = VisionEffects(self.result.api_key, call.env_key,
                                                   call.vw)]
    /\ UNCHANGED mainVars

CallTesseractEngine ==
    /\ call.kind = "tesseract"
    /\ ~call.done
    /\ TesseractEngineInit(TRUE, TRUE).kind = "return"
    /\ call' = [call EXCEPT !.done = TRUE,
                  !.out = TesseractAnalyzeImage(CallPath, call.tw),
                  !.effects = TesseractEffects(call.tw)]
    /\ UNCHANGED mainVars

NextEngine == CallHelper \/ CallVisionEngine \/ CallTesseractEngine

SpecEngine == InitEngine /\ [][NextEngine]_vars

(***************************************************************************)
(* One record written by save_result and read back, over the results the   *)
(* engines produce.                                                        *)
(***************************************************************************)
SaveResults ==
    {TesseractAnalyzeImage(CallPath, w).result :
        w \in {x \in TessWorlds : TesseractAnalyzeImage(CallPath, x).kind = "return"}}
    \cup {analyze_image_with_apikey(CallPath, Some("k"), None, w).result :
             w \in {x \in VisionWorlds :
                      analyze_image_with_apikey(CallPath, Some("k"), None, x).kind
                          = "return"}}

SaveCall(r, format_type) ==
    [kind |-> "save", r |-> r, format |-> format_type, stage |-> "new",
     file |-> <<>>, parsed |-> JNull]

InitSave ==
    /\ pc = "idle"
    /\ env = Args(TRUE, "vision", "json", None, TRUE, TRUE)
    /\ tree = {}
    /\ images = <<>>
    /\ idx = 0
    /\ result = None
    /\ success_count = 0
    /\ outdir = EmptyDict
    /\ analysed = <<>>
    /\ saved = <<>>
    /\ logged = <<>>
    /\ exit_code = None
    /\ complete = FALSE
    /\ call \in {SaveCall(r, f) : r \in SaveResults, f \in {"json", "jsonl"}}

\* save_result(result, output_path, format_type).
WriteRecord ==
    /\ call.kind = "save"
    /\ call.stage = "new"
    /\ call' = [call EXCEPT !.stage = "written", !.file = FileText(call.r, call.format)]
    /\ UNCHANGED mainVars

\* json.loads(output.read_text()): the record is parsed again.
ReadRecord ==
    /\ call.kind = "save"
    /\ call.stage = "written"
    /\ call' = [call EXCEPT !.stage = "read", !.parsed = Loads(call.file)]
    /\ UNCHANGED mainVars

NextSave == WriteRecord \/ ReadRecord

SpecSave == InitSave /\ [][NextSave]_vars

(***************************************************************************)
(* Properties of the batch driver, checked under Spec.                     *)
(***************************************************************************)
Terminated == pc \in {"exit", "crashed"}
LoopEntered == idx >= 1

AnalysedAt(k, ok) ==
    \E j \in 1..Len(analysed) : analysed[j].image = images[k] /\ (ok => analysed[j].success)
WrittenAt(k) ==
    \E j \in 1..Len(saved) : saved[j].image = images[k] /\ saved[j].wrote
SaveCalls(k) == Cardinality({j \in 1..Len(saved) : saved[j].image = images[k]})

\* C1: in a run that is not interrupted and reaches its report, save_result is
\* called exactly once for every enumerated image, whatever per-image error
\* the engine met.
C1_EveryImageRecordedOnce ==
    complete => \A k \in 1..Len(images) : SaveCalls(k) = 1

\* C3: in a run that is not interrupted, once the loop is entered every
\* enumerated image is analysed and the "Complete" report is reached.
C3_BatchIsolation ==
    (Terminated /\ LoopEntered) => (complete /\ Len(analysed) = Len(images))

AllProducedSuccess ==
    env.is_dir /\ \A k \in 1..Len(images) : AnalysedAt(k, TRUE)
AllSucceededAndWritten ==
    env.is_dir /\ \A k \in 1..Len(images) : AnalysedAt(k, TRUE) /\ WrittenAt(k)

\* C4 as stated, for the runs that end through sys.exit: the status is 0
\* exactly when every enumerated image produced a result with success = true,
\* 1 otherwise, and 130 after an interrupt.
C4_ExitStatusAsStated ==
    /\ pc = "exit" => /\ Get(exit_code) \in {0, 1}
                      /\ Get(exit_code) = 0 <=> AllProducedSuccess
    /\ pc = "interrupted" => Get(exit_code) = 130

\* C4 as amended: the status is 0 exactly when every enumerated image produced
\* a result with success = true and save_result wrote its record; it is 1 in
\* every other run that is not interrupted, 130 after an interrupt in the loop,
\* and there is no status while main() runs.
C4_ExitStatus ==
    /\ Terminated => /\ Get(exit_code) \in {0, 1}
                     /\ Get(exit_code) = 0 <=> AllSucceededAndWritten
    /\ pc = "interrupted" => (Get(exit_code) = 130 /\ LoopEntered /\ ~complete)
    /\ pc \in {"start", "analyze", "save"} => IsNone(exit_code)

\* A run of two images or more, all analysed with success, that still ends
\* with status 1 because a record could not be written.
C4_Witness ==
    /\ pc = "exit" /\ complete /\ Len(images) >= 2
    /\ AllProducedSuccess
    /\ exit_code = Some(1)

\* C5: after a run that wrote a record for each of its n images, the output
\* directory holds n records, one per image.
C5_OneRecordPerImage ==
    (complete /\ \A k \in 1..Len(images) : WrittenAt(k))
        => /\ Cardinality(DOMAIN outdir) = Len(images)
           /\ \A k \in 1..Len(images) :
                 \E f \in DOMAIN outdir : outdir[f].data.image = images[k]

\* The files the claim names: regular files below the root whose name ends,
\* whatever the case, in a dot and an allowed extension after a non-empty stem.
EndsWith(n, x) == Len(n) >= Len(x) /\ SubSeq(n, Len(n) - Len(x) + 1, Len(n)) = x
NamedImage(e) ==
    /\ e.kind = "file"
    /\ \E x \in IMAGE_EXTENSIONS :
          EndsWith(Lower(Name(e.path)), x) /\ Len(Name(e.path)) > Len(x)

\* C10: images is exactly the image files of the tree, in strictly ascending
\* path order (so without duplicates), and the engine is called on them in
\* that order, one call per image.
C10_DeterministicOrder ==
    (env.is_dir /\ pc # "start")
        => /\ Range(images) = {e.path : e \in {x \in tree : NamedImage(x)}}
           /\ \A a, b \in 1..Len(images) : a < b => PathLess(images[a], images[b])
           /\ Len(analysed) <= Len(images)
           /\ \A k \in 1..Len(analysed) : analysed[k].image = images[k]

\* Three images, one with an upper-case extension, analysed in order: B.PNG,
\* a.jpg, b.png.
C10_Witness ==
    /\ pc = "exit" /\ complete
    /\ Len(images) = 3 /\ Len(analysed) = 3
    /\ images[1] = << <<"B", ".", "P", "N", "G">> >>
    /\ images[2] = << <<"a", ".", "j", "p", "g">> >>
    /\ images[3] = << <<"b", ".", "p", "n", "g">> >>

(***************************************************************************)
(* Properties of one engine call, checked under SpecEngine.                *)
(***************************************************************************)
EngineCall == call.kind \in {"vision", "tesseract"} /\ call.done
VisionCall == call.kind \in {"helper", "vision"} /\ call.done
TesseractCall == call.kind = "tesseract" /\ call.done

\* The key the helper ends up with is usable.
KeyGiven == ~Falsy(IF IsNone(call.api_key) THEN call.env_key ELSE call.api_key)

\* A per-image failure of the world of the call.
PerImageFailure ==
    IF call.kind = "tesseract"
    THEN ~call.tw.exists \/ call.tw.open # "ok" \/ call.tw.to_string # "ok"
         \/ call.tw.to_data # "ok"
    ELSE ~call.vw.exists \/ call.vw.read # "ok" \/ call.vw.post # "ok"
         \/ (call.vw.status_code = 200 /\ call.vw.json # "ok")

\* C2: on a constructed engine analyze_image returns, never raises, and the
\* result of a per-image failure has its error set.
C2_AnalyzeNeverRaises ==
    EngineCall => /\ call.out.kind = "return"
                  /\ PerImageFailure => ~success(call.out.result)

\* The call got an HTTP 200 answer that decodes to at least one entry whose
\* label annotations all have a description and a score.
GotEntry ==
    /\ VisionCall /\ KeyGiven
    /\ call.vw.exists /\ call.vw.read = "ok" /\ call.vw.post = "ok"
    /\ call.vw.status_code = 200 /\ call.vw.json = "ok"
    /\ HasKey(call.vw.body, "responses")
    /\ Len(call.vw.body.responses) >= 1
    /\ HasKey(call.vw.body.responses[1], "labelAnnotations")
          => WellFormedLabels(call.vw.body.responses[1].labelAnnotations)

FirstEntry == call.vw.body.responses[1]
EntryText ==
    IF HasKey(FirstEntry, "fullTextAnnotation") /\ HasKey(FirstEntry.fullTextAnnotation, "text")
    THEN Some(FirstEntry.fullTextAnnotation.text) ELSE None
EntryLabels == IF HasKey(FirstEntry, "labelAnnotations") THEN FirstEntry.labelAnnotations ELSE <<>>

\* C6: full_text and labels are those of the first entry, in order, with or
\* without an "error" member; error is set exactly when the entry has one, and
\* then holds its message and code, and success is false.
C6_PartialSuccess ==
    GotEntry =>
        LET r == call.out.result
        IN  /\ call.out.kind = "return"
            /\ r.full_text = EntryText
            /\ Len(r.labels) = Len(EntryLabels)
            /\ \A k \in 1..Len(EntryLabels) :
                  /\ r.labels[k].description = EntryLabels[k].description
                  /\ FracEq(r.labels[k].score, EntryLabels[k].score)
            /\ ~IsNone(r.error) <=> HasKey(FirstEntry, "error")
            /\ HasKey(FirstEntry, "error") =>
                  /\ ~success(r)
                  /\ HasKey(FirstEntry.error, "message")
                        => Contains(Get(r.error), FirstEntry.error.message)
                  /\ HasKey(FirstEntry.error, "code")
                        => Contains(Get(r.error), FirstEntry.error.code)

\* An entry with a text, two labels and an error with message and code.
C6_Witness ==
    /\ GotEntry
    /\ HasKey(FirstEntry, "error")
    /\ DOMAIN FirstEntry.error = {"message", "code"}
    /\ Len(EntryLabels) = 2
    /\ call.out.kind = "return"
    /\ call.out.result.full_text = Some(HelloText)
    /\ Len(call.out.result.labels) = 2
    /\ ~success(call.out.result)

\* The service answered with a status outside 2xx.
GotNon2xx ==
    /\ VisionCall /\ KeyGiven
    /\ call.vw.exists /\ call.vw.read = "ok" /\ call.vw.post = "ok"
    /\ call.vw.status_code \notin 200..299

\* C7: a status outside 2xx gives a returned result with success = false, an
\* error holding the status code and the raw body, no text and no labels; the
\* body is not decoded (a body that is no JSON changes nothing).
C7_HttpError ==
    GotNon2xx =>
        /\ call.out.kind = "return"
        /\ ~success(call.out.result)
        /\ Contains(Get(call.out.result.error), ToString(call.vw.status_code))
        /\ Contains(Get(call.out.result.error), call.vw.text)
        /\ IsNone(call.out.result.full_text)
        /\ call.out.result.labels = <<>>

\* Status 400 with the body "Bad Request", which is no JSON.
C7_Witness ==
    /\ GotNon2xx
    /\ call.vw.status_code = 400 /\ call.vw.text = "Bad Request"
    /\ call.vw.json # "ok"
    /\ call.out.kind = "return"
    /\ ~success(call.out.result)

\* The recognizer answered both extractions.
Recognized ==
    /\ TesseractCall
    /\ call.tw.exists /\ call.tw.open = "ok"
    /\ call.tw.to_string = "ok" /\ call.tw.to_data = "ok"

TokenValues == DictGet(call.tw.data, "conf", <<>>)
PositiveAt == {k \in 1..Len(TokenValues) : FloatTenths(TokenValues[k]) > 0}
RECURSIVE SumAt(_)
SumAt(K) == IF K = {} THEN 0
            ELSE LET k == CHOOSE x \in K : TRUE
                 IN  FloatTenths(TokenValues[k]) + SumAt(K \ {k})

\* C8: confidence is absent exactly when no token value is strictly positive;
\* otherwise it is the mean of the strictly positive values, divided by 100.
C8_ConfidenceAggregation ==
    Recognized =>
        LET r == call.out.result
        IN  /\ call.out.kind = "return" /\ success(r)
            /\ IsNone(r.confidence) <=> PositiveAt = {}
            /\ PositiveAt # {} =>
                  FracEq(Get(r.confidence),
                         Frac(SumAt(PositiveAt), Cardinality(PositiveAt) * 10 * 100))

\* Two positive values next to a sentinel: the confidence is present.
C8_Witness ==
    /\ Recognized
    /\ Cardinality(PositiveAt) >= 2
    /\ Contains(TokenValues, <<"-", "1">>) \/ Contains(TokenValues, <<"0">>)
    /\ ~IsNone(call.out.result.confidence)

\* C9: with a non-empty stripped text there is exactly one label "text" whose
\* score is the normalized confidence, or 0.5 when it is absent; with an
\* empty text there is no label, no full_text and no confidence, whatever the
\* token confidences.
C9_LabelSynthesis ==
    Recognized =>
        LET r == call.out.result
            text == Strip(call.tw.raw)
        IN  /\ call.out.kind = "return" /\ success(r)
            /\ Len(text) > 0 =>
                  /\ r.full_text = Some(text)
                  /\ Len(r.labels) = 1
                  /\ r.labels[1].description = "text"
                  /\ FracEq(r.labels[1].score,
                            IF IsNone(r.confidence) THEN Frac(1, 2) ELSE Get(r.confidence))
            /\ Len(text) = 0 =>
                  /\ r.labels = <<>>
                  /\ IsNone(r.full_text)
                  /\ IsNone(r.confidence)

(***************************************************************************)
(* Interrupts and fatal configuration errors, checked under Spec.          *)
(***************************************************************************)
\* C11: after a KeyboardInterrupt in the loop the status is 130 and no final
\* count is reported; the interrupt falls between two images: no image is
\* left analysed with its record unwritten, and every record on disk is whole,
\* as it was written.
C11_InterruptBetweenImages ==
    pc = "interrupted" =>
        /\ exit_code = Some(130)
        /\ ~complete
        /\ IsNone(result)
        /\ \A f \in DOMAIN outdir : outdir[f].whole

\* The fatal configuration errors: the input path is no directory, or the
\* engine that main() goes on to construct cannot be constructed.
NotADirectory == ~env.is_dir
EngineUnusable ==
    \/ env.engine = "vision" /\ Falsy(env.env_key)
    \/ env.engine = "tesseract" /\ ~(env.tess_available /\ env.tess_version_ok)
ConstructionFails == env.is_dir /\ find_images(tree) # <<>> /\ EngineUnusable

\* C12: when the input path is no directory or the construction of the engine
\* fails, main() ends with status 1 straight from the start, with no
\* analyze_image call and no record; no per-image step ever runs with an
\* unusable engine, and no engine error of construction shows up per image.
C12_FatalBeforeImages ==
    /\ (pc # "start" /\ (NotADirectory \/ ConstructionFails))
          => /\ pc = "exit" /\ exit_code = Some(1) /\ ~complete
             /\ analysed = <<>> /\ saved = <<>> /\ outdir = EmptyDict
    /\ (analysed # <<>> \/ saved # <<>> \/ pc \in {"analyze", "save"})
          => (env.is_dir /\ ~EngineUnusable)
    /\ \A j \in 1..Len(logged) :
          logged[j].exc \notin {"VisionAPIError", "TesseractEngineError"}

\* A directory with two images or more and a vision engine without key: the run
\* is over with status 1 and nothing analysed.
C12_Witness ==
    /\ pc = "exit" /\ exit_code = Some(1)
    /\ env.is_dir /\ Len(images) >= 2
    /\ env.engine = "vision" /\ IsNone(env.env_key)
    /\ analysed = <<>> /\ outdir = EmptyDict

(***************************************************************************)
(* Properties of a record written and read back, checked under SpecSave.   *)
(***************************************************************************)
RecordKeys == {<<"image">>, <<"engine">>, <<"success">>, <<"text">>, <<"labels">>,
               <<"confidence">>, <<"error">>}
Keys(j) == {j.v[k].key : k \in 1..Len(j.v)}
Field(j, name) == j.v[CHOOSE k \in 1..Len(j.v) : j.v[k].key = <<name>>].val

\* Two scalar JSON values are the same value.
JSame(a, b) == a.t = b.t /\ (IF a.t = "num" THEN FracEq(a.v, b.v) ELSE a.v = b.v)

\* The tokens of a text that hold a line break.
LineBreaks(text) ==
    {k \in 1..Len(text) : text[k].t \in {"ws", "s"} /\ Contains(text[k].v, "\n")}

\* C13: the record read back has the seven fields, in both modes, and its
\* success, text, labels (order, name, score), confidence and error are those
\* of the result that was saved; the jsonl text is a single line.
C13_RoundTrip ==
    (call.kind = "save" /\ call.stage = "read") =>
        LET r == call.r
            p == call.parsed
        IN  /\ p.t = "dict" /\ Len(p.v) = 7 /\ Keys(p) = RecordKeys
            /\ JSame(Field(p, "success"), JBool(success(r)))
            /\ JSame(Field(p, "text"), JOptStr(r.full_text))
            /\ Field(p, "labels").t = "list"
            /\ Len(Field(p, "labels").v) = Len(r.labels)
            /\ \A k \in 1..Len(r.labels) :
                  LET l == Field(p, "labels").v[k]
                  IN  /\ l.t = "dict" /\ Keys(l) = {<<"name">>, <<"score">>}
                      /\ JSame(Field(l, "name"), JStr(<<r.labels[k].description>>))
                      /\ JSame(Field(l, "score"), JNum(r.labels[k].score))
            /\ JSame(Field(p, "confidence"), JOptNum(r.confidence))
            /\ JSame(Field(p, "error"), JOptStr(r.error))
            /\ call.format = "jsonl" => LineBreaks(call.file) = {Len(call.file)}

\* A jsonl record of a result whose text holds a quote, a backslash and a line
\* break, with two labels and an error.
C13_Witness ==
    /\ call.kind = "save" /\ call.stage = "read"
    /\ call.format = "jsonl"
    /\ call.r.full_text = Some(QuotedText)
    /\ Len(call.r.labels) = 2
    /\ ~IsNone(call.r.error)

(***************************************************************************)
(* The result invariant, checked under Spec.                               *)
(***************************************************************************)
\* What a result or a record claims: success exactly when no error is held.
Consistent(ok, error) == ok <=> IsNone(error)

ResultInvariant ==
    /\ ~IsNone(result) => Consistent(success(Get(result)), Get(result).error)
    /\ \A f \in DOMAIN outdir :
          outdir[f].whole =>
              /\ Consistent(outdir[f].data.success, outdir[f].data.error)
              /\ Field(DataJson(outdir[f].data), "labels").t = "list"

CountedOnlyWithoutError ==
    success_count' > success_count =>
        /\ success_count' = success_count + 1
        /\ ~IsNone(result) /\ IsNone(Get(result).error)

\* C14: the pending result and every persisted record have success exactly
\* when the error is absent and labels as a list; the driver counts a result
\* as a success only when its error is absent, an empty error string included.
C14_ResultInvariant == []ResultInvariant /\ [][CountedOnlyWithoutError]_vars

\* A finished batch that persisted a result whose error is the empty string and
\* counted another image as a success.
C14_Witness ==
    /\ pc = "exit" /\ complete
    /\ success_count = 1
    /\ \E f \in DOMAIN outdir :
          outdir[f].whole /\ outdir[f].data.error = Some(<<>>) /\ ~outdir[f].data.success
    /\ \E f \in DOMAIN outdir : outdir[f].data.success

(***************************************************************************)
(* Failures met before the work starts, checked under SpecEngine.          *)
(***************************************************************************)
\* C15: on a path that does not exist TesseractEngine.analyze_image returns a
\* result of engine "tesseract" with success = false and an error holding
\* "Image file not found", and neither opens the image nor calls the
\* recognizer.
C15_TesseractMissingFile ==
    (TesseractCall /\ ~call.tw.exists) =>
        /\ call.out.kind = "return"
        /\ call.out.result.engine = "tesseract"
        /\ ~success(call.out.result)
        /\ Contains(Get(call.out.result.error), "Image file not found: ")
        /\ call.effects = <<>>

C15_Witness ==
    /\ TesseractCall /\ ~call.tw.exists
    /\ call.out.kind = "return"
    /\ ~IsNone(call.out.result.error)
    /\ call.effects = <<>>

\* The call got an HTTP 200 answer whose decoded body holds no entry.
GotNoEntry ==
    /\ VisionCall /\ KeyGiven
    /\ call.vw.exists /\ call.vw.read = "ok" /\ call.vw.post = "ok"
    /\ call.vw.status_code = 200 /\ call.vw.json = "ok"
    /\ Len(DictGet(call.vw.body, "responses", <<>>)) = 0

\* C16: a 200 answer without entries, the member missing or empty, gives a
\* returned result with the error "No response from Vision API", success =
\* false, no text and no labels.
C16_EmptyResponse ==
    GotNoEntry =>
        /\ call.out.kind = "return"
        /\ ~success(call.out.result)
        /\ Contains(Get(call.out.result.error), "No response from Vision API")
        /\ IsNone(call.out.result.full_text)
        /\ call.out.result.labels = <<>>

\* The member is there and empty.
C16_Witness ==
    /\ GotNoEntry
    /\ HasKey(call.vw.body, "responses")
    /\ call.out.kind = "return"
    /\ ~success(call.out.result)

HelperCall == call.kind = "helper" /\ call.done
NoKeyAnywhere == IsNone(call.api_key) /\ IsNone(call.env_key)
Raised(cls) == call.out.kind = "raise" /\ call.out.exc = cls

\* C17: the helper raises VisionAPIError when no key is passed and none is in
\* the environment, also when the file is missing as well, and
\* FileNotFoundError when it has a key and the file does not exist; in both
\* cases nothing was read and nothing was sent.
C17_HelperPreconditions ==
    HelperCall =>
        /\ NoKeyAnywhere => (Raised("VisionAPIError") /\ call.effects = <<>>)
        /\ (KeyGiven /\ ~call.vw.exists)
              => (Raised("FileNotFoundError") /\ call.effects = <<>>)
        /\ Raised("FileNotFoundError") => KeyGiven

\* No key and no file: the key is what the helper complains about.
C17_Witness ==
    /\ HelperCall /\ NoKeyAnywhere /\ ~call.vw.exists
    /\ Raised("VisionAPIError")
    /\ call.effects = <<>>

====
